---------------------------- MODULE Spec2Model ----------------------------
(***************************************************************************)
(* Model of the trimark donation-screenshot importer (src/master.go).      *)
(*                                                                         *)
(* One invocation of Main: it lists the Upload folder, launches one        *)
(* goroutine per entry, and waits for them.  Each goroutine crops the      *)
(* image, inserts a derived document, exports it as text, extracts the     *)
(* fields, moves the files, appends a row and renames.  log.Fatalf ends    *)
(* the whole process.  Drive and Sheets are collaborators: their state is  *)
(* the variables drive and sheet, and any call to them may fail.           *)
(***************************************************************************)
EXTENDS Integers, Sequences, FiniteSets, TLC

(***************************************************************************)
(* Bounds                                                                  *)
(***************************************************************************)
MaxFiles == 2
MaxPriorRows == 9

(***************************************************************************)
(* Program constants                                                       *)
(***************************************************************************)
UploadFolderName == "UploadHere"
ProcessedFolderName == "Processed"
FailedFolderName == "Failed"
ReportFolderName == "Report"

\* The folder ids init() resolved; a folder's id is modelled by its name.
UploadFolderID == UploadFolderName
ProcessedFolderID == ProcessedFolderName
FailedFolderID == FailedFolderName

(***************************************************************************)
(* Strings.  A Go string is a TLA+ string; Ch(s, i) is its i-th byte.      *)
(***************************************************************************)
Ch(s, i) == IF i >= 1 /\ i <= Len(s) THEN SubSeq(s, i, i) ELSE ""

DigitChars == {"0", "1", "2", "3", "4", "5", "6", "7", "8", "9"}

\* Case folding of the ASCII letters, as (?i) compares them.
LowerOf ==
    [A |-> "a", B |-> "b", C |-> "c", D |-> "d", E |-> "e", F |-> "f",
     G |-> "g", H |-> "h", I |-> "i", J |-> "j", K |-> "k", L |-> "l",
     M |-> "m", N |-> "n", O |-> "o", P |-> "p", Q |-> "q", R |-> "r",
     S |-> "s", T |-> "t", U |-> "u", V |-> "v", W |-> "w", X |-> "x",
     Y |-> "y", Z |-> "z"]

IsDigit(c) == c \in DigitChars
IsUpper(c) == c \in DOMAIN LowerOf

Lower(c) == IF IsUpper(c) THEN LowerOf[c] ELSE c

SetMin(S) == CHOOSE x \in S : \A y \in S : x <= y
SetMax(S) == CHOOSE x \in S : \A y \in S : x >= y

\* s[a..b] holds no newline ('.' without the s flag does not match \n).
NoNewline(s, a, b) == \A k \in a..b : Ch(s, k) # "\n"

HasLiteralAt(s, i, lit) ==
    /\ i + Len(lit) - 1 <= Len(s)
    /\ SubSeq(s, i, i + Len(lit) - 1) = lit

HasLiteralFoldAt(s, i, lit) ==
    /\ i + Len(lit) - 1 <= Len(s)
    /\ \A k \in 1..Len(lit) : Lower(Ch(s, i + k - 1)) = Lower(Ch(lit, k))

(***************************************************************************)
(* The regular expressions of master.go:67-72, each as the result of       *)
(* FindStringSubmatch: <<>> when there is no match, else                   *)
(* <<whole match, capture group>>.  Go's regexp is leftmost-first.         *)
(***************************************************************************)

\* dateRegex  (\d{4}-\d{2}-\d{2} \d{2}:\d{2}:\d{2}) ; "d" stands for \d.
DateShape == "dddd-dd-dd dd:dd:dd"

MatchDateAt(s, i) ==
    /\ i + Len(DateShape) - 1 <= Len(s)
    /\ \A k \in 1..Len(DateShape) :
          IF Ch(DateShape, k) = "d"
          THEN IsDigit(Ch(s, i + k - 1))
          ELSE Ch(s, i + k - 1) = Ch(DateShape, k)

dateRegex(s) ==
    LET I == {i \in 1..Len(s) : MatchDateAt(s, i)}
    IN  IF I = {} THEN <<>>
        ELSE LET i == SetMin(I)
                 m == SubSeq(s, i, i + Len(DateShape) - 1)
             IN  <<m, m>>

\* usernameRegex  Member Donation.*[([](?P<Member>.*)[)\]]
\* i: start of the literal, j: the opening bracket, k: the closing bracket.
UserLabel == "Member Donation"

\* The last position of the line that holds position i.
LineEnd(s, i) ==
    SetMin({k \in i..Len(s) : Ch(s, k) = "\n"} \cup {Len(s) + 1}) - 1

\* The first position of the line that holds position i.
LineStart(s, i) ==
    SetMax({k \in 1..(i - 1) : Ch(s, k) = "\n"} \cup {0}) + 1

\* the brackets that follow the literal at i on its line
Openers(s, i) ==
    {j \in (i + Len(UserLabel))..LineEnd(s, i) : Ch(s, j) \in {"(", "["}}

Closers(s, i) ==
    {k \in (i + Len(UserLabel))..LineEnd(s, i) : Ch(s, k) \in {")", "]"}}

UserMatchAt(s, i) ==
    /\ HasLiteralAt(s, i, UserLabel)
    /\ \E j \in Openers(s, i) : \E k \in Closers(s, i) : j < k

usernameRegex(s) ==
    LET I == {i \in 1..Len(s) : UserMatchAt(s, i)}
    IN  IF I = {} THEN <<>>
        ELSE LET i == SetMin(I)
                 \* both .* are greedy: the last opening bracket that still
                 \* has a closing bracket after it, then the last closing one
                 k == SetMax(Closers(s, i))
                 j == SetMax({jj \in Openers(s, i) : jj < k})
             IN  <<SubSeq(s, i, k), SubSeq(s, j + 1, k - 1)>>

\* (?ims)<label>\r\n(?P<quantity>[0-9,]*) for the three labels.
IsQuantityChar(c) == IsDigit(c) \/ c = ","

QuantityMatch(s, label) ==
    LET lit == label \o "\r\n"
        I == {i \in 1..Len(s) : HasLiteralFoldAt(s, i, lit)}
    IN  IF I = {} THEN <<>>
        ELSE LET i == SetMin(I)
                 p == i + Len(lit)
                 e == SetMax({ee \in (p - 1)..Len(s) :
                                 \A k \in p..ee : IsQuantityChar(Ch(s, k))})
             IN  <<SubSeq(s, i, e), SubSeq(s, p, e)>>

\* The Type pattern with the class [0-9]* in place of [0-9,]*.
quantityFirstRegex_NoComma(s) ==
    LET lit == "Type\r\n"
        I == {i \in 1..Len(s) : HasLiteralFoldAt(s, i, lit)}
    IN  IF I = {} THEN <<>>
        ELSE LET i == SetMin(I)
                 p == i + Len(lit)
                 e == SetMax({ee \in (p - 1)..Len(s) :
                                 \A k \in p..ee : IsDigit(Ch(s, k))})
             IN  <<SubSeq(s, i, e), SubSeq(s, p, e)>>

quantityZeroRegex(s) == QuantityMatch(s, "Member Donation")
quantityFirstRegex(s) == QuantityMatch(s, "Type")
quantitySecondRegex(s) == QuantityMatch(s, "Quantity")

\* rowRegex  .*:[A-Z](\d.*?)$ ; j is the position of the colon.
RowTailAt(s, j) ==
    /\ Ch(s, j) = ":"
    /\ IsUpper(Ch(s, j + 1))
    /\ IsDigit(Ch(s, j + 2))
    /\ NoNewline(s, j + 3, Len(s))

\* rowRegex without the closing $: the lazy .*? then takes nothing.
rowRegex_NoAnchor(s) ==
    LET J == {j \in 1..Len(s) :
                 Ch(s, j) = ":" /\ IsUpper(Ch(s, j + 1)) /\ IsDigit(Ch(s, j + 2))}
    IN  IF J = {} THEN <<>>
        ELSE LET a == SetMin({LineStart(s, j) : j \in J})
                 j == SetMax({jj \in J : NoNewline(s, a, jj - 1)})
             IN  <<SubSeq(s, a, j + 2), SubSeq(s, j + 2, j + 2)>>

rowRegex(s) ==
    LET J == {j \in 1..Len(s) : RowTailAt(s, j)}
    IN  IF J = {} THEN <<>>
        ELSE LET a == SetMin({LineStart(s, j) : j \in J})
                 \* .* is greedy: the last colon the tail still matches at
                 j == SetMax({jj \in J : NoNewline(s, a, jj - 1)})
             IN  <<SubSeq(s, a, Len(s)), SubSeq(s, j + 2, Len(s))>>

(***************************************************************************)
(* extractData (master.go:326-363) on the content ioutil.ReadAll returned. *)
(***************************************************************************)
NoMatch(res) == Len(res) # 2 \/ (Len(res) = 2 /\ res[2] = "")

ExtractResult(d, u, q, e) == [date |-> d, username |-> u, quantity |-> q, err |-> e]

\* extractData trying the Quantity pattern before the Type pattern.
extractData_QuantityBeforeType(content) ==
    LET dateResults == dateRegex(content)
        usernameResults == usernameRegex(content)
        q0 == quantityZeroRegex(content)
        q1 == quantitySecondRegex(content)
        q2 == quantityFirstRegex(content)
        quantityResults == IF ~NoMatch(q0) THEN q0
                           ELSE IF ~NoMatch(q1) THEN q1 ELSE q2
    IN  IF Len(dateResults) # 2
            THEN ExtractResult("", "", "", "Date Not Found")
        ELSE IF Len(usernameResults) # 2
            THEN ExtractResult("", "", "", "Username Not Found")
        ELSE IF NoMatch(quantityResults)
            THEN ExtractResult("", "", "", "Quantity Not Found")
        ELSE ExtractResult(dateResults[2], usernameResults[2],
                           quantityResults[2], "")

\* extractData looking for the member before the date.
extractData_MemberBeforeDate(content) ==
    LET dateResults == dateRegex(content)
        usernameResults == usernameRegex(content)
        q0 == quantityZeroRegex(content)
        q1 == quantityFirstRegex(content)
        q2 == quantitySecondRegex(content)
        quantityResults == IF ~NoMatch(q0) THEN q0
                           ELSE IF ~NoMatch(q1) THEN q1 ELSE q2
    IN  IF Len(usernameResults) # 2
            THEN ExtractResult("", "", "", "Username Not Found")
        ELSE IF Len(dateResults) # 2
            THEN ExtractResult("", "", "", "Date Not Found")
        ELSE IF NoMatch(quantityResults)
            THEN ExtractResult("", "", "", "Quantity Not Found")
        ELSE ExtractResult(dateResults[2], usernameResults[2],
                           quantityResults[2], "")

extractData(content) ==
    LET dateResults == dateRegex(content)
        usernameResults == usernameRegex(content)
        q0 == quantityZeroRegex(content)
        q1 == quantityFirstRegex(content)
        q2 == quantitySecondRegex(content)
        quantityResults == IF ~NoMatch(q0) THEN q0
                           ELSE IF ~NoMatch(q1) THEN q1 ELSE q2
    IN  IF Len(dateResults) # 2
            THEN ExtractResult("", "", "", "Date Not Found")
        ELSE IF Len(usernameResults) # 2
            THEN ExtractResult("", "", "", "Username Not Found")
        ELSE IF NoMatch(quantityResults)
            THEN ExtractResult("", "", "", "Quantity Not Found")
        ELSE ExtractResult(dateResults[2], usernameResults[2],
                           quantityResults[2], "")


(***************************************************************************)
(* appendDataToSheet's pure part (master.go:376-393).                      *)
(***************************************************************************)
\* hex(md5(s)): the digest is kept symbolic; it is never the empty string.
Md5Hex(s) == "md5(" \o s \o ")"

Checksum(date, name, amount) == Md5Hex(date \o name \o amount)

RowParseError == "Unable to parse row which was imported"
AppendCallError == "append call failed"

\* appendDataToSheet returning the whole match in place of the capture.
appendDataToSheetResult_WholeMatch(css, callOk, updatedRange) ==
    LET regexResults == rowRegex(updatedRange)
    IN  IF ~callOk THEN [rowID |-> "", cs |-> css, err |-> AppendCallError]
        ELSE IF Len(regexResults) # 2
            THEN [rowID |-> "", cs |-> css, err |-> RowParseError]
        ELSE [rowID |-> regexResults[1], cs |-> css, err |-> ""]

\* What appendDataToSheet returns, given the outcome of the Append call:
\* callOk is err == nil at line 384, updatedRange is r.Updates.UpdatedRange.
appendDataToSheetResult(css, callOk, updatedRange) ==
    LET regexResults == rowRegex(updatedRange)
    IN  IF ~callOk THEN [rowID |-> "", cs |-> css, err |-> AppendCallError]
        ELSE IF Len(regexResults) # 2
            THEN [rowID |-> "", cs |-> css, err |-> RowParseError]
        ELSE [rowID |-> regexResults[2], cs |-> css, err |-> ""]

\* The row appendDataToSheet sends (line 379); "now" stands for time.Now().
SheetValues(css, date, name, amount, link) ==
    [checksum |-> css, now |-> "now", date |-> date, name |-> name,
     amount |-> amount, link |-> link]

\* The header row setupSheet wrote (line 266).
HeaderRow ==
    [checksum |-> "ID", now |-> "Import Date", date |-> "Echoes Date",
     name |-> "Name", amount |-> "Amount", link |-> "Link"]

(***************************************************************************)
(* The collaborators' data.                                                *)
(***************************************************************************)
Files == 1..MaxFiles

\* The id the store gives the document inserted for source file f.
DocId(f) == MaxFiles + f

\* DefaultOpenWithLink of a stored file.
LinkOf(id) == "https://docs/" \o ToString(id)

\* The A1 reference the store reports for an append that wrote row n.
RangeOfRow(n) == "Sheet1!A" \o ToString(n) \o ":F" \o ToString(n)

\* A reference without the ":<Letter><digits>" tail.
OddRangeOfRow(n) == "Sheet1!A" \o ToString(n)

\* OCR texts the export step can produce for an uploaded screenshot.
TextFull == "2021-05-01 12:00:00\r\nMember Donation - Screenshot (Jane Doe)\r\nType\r\n1,234"
TextNoDate == "Member Donation (Bob)\r\nQuantity\r\n7"
TextNoQuantity == "2021-05-02 10:00:00 Member Donation [Al]\r\nType\r\n\r\n"
Texts == {TextFull, TextNoDate, TextNoQuantity}

\* What a user can have put under Upload: a decodable screenshot with its
\* OCR text, a file image.Decode rejects, or a sub-folder.
Uploads ==
    [kind : {"image"}, text : Texts]
        \cup [kind : {"other", "folder"}, text : {""}]

\* More OCR texts, put together from the layouts the screenshots come in:
\* the timestamp, the member line, and the three label blocks, each present
\* or not, with or without a number, with CRLF or a bare LF after the label.
DateParts == {"", "2021-05-01 12:00:00\r\n"}
MemberParts == {"", "Member Donation - Screenshot (Jane Doe)\r\n"}
ZeroParts == {"", "Member Donation\r\n55\r\n", "Member Donation\r\n\r\n"}
TypeParts == {"", "Type\r\n1,234\r\n", "Type\r\nISK\r\n", "Type\n1,234\n"}
QuantityParts == {"", "Quantity\r\n7\r\n", "quantity\r\n\r\n"}

SampleTexts ==
    {d \o m \o z \o t \o q :
        d \in DateParts, m \in MemberParts, z \in ZeroParts,
        t \in TypeParts, q \in QuantityParts}
    \cup
    {d \o m \o z \o q \o t :
        d \in DateParts, m \in MemberParts, z \in ZeroParts,
        t \in TypeParts, q \in QuantityParts}

AllTexts == Texts \cup SampleTexts

\* extractData on each of these texts, evaluated once
ExtractedFrom == [t \in AllTexts |-> extractData(t)]

SourceTitle(f) == "shot" \o ToString(f) \o ".png"

(***************************************************************************)
(* State                                                                   *)
(***************************************************************************)
VARIABLES
    drive,    \* Drive: file id -> [title, parents, kind, text]
    sheet,    \* Sheets: the rows of Sheet1, row 1 is the header
    fatal,    \* "" while the process runs, else the log.Fatalf message
    mainPc,   \* where Main is: "list", "loop", "returned"
    cs,       \* Main's cs: the ids listed under Upload
    idx,      \* Main's position in the range loop over cs
    wg,       \* the WaitGroup counter
    unit,     \* file id -> the goroutine launched for it: its position pc
              \* and its locals
    boot,     \* init(): its position, createServices' err and the ids set
    inv,      \* the number of the invocation of Main the variables fatal,
              \* mainPc, cs, idx, wg and unit belong to
    parked    \* invocation number -> those variables of the other
              \* invocations that are under way or over

vars == <<drive, sheet, fatal, mainPc, cs, idx, wg, unit, boot, inv, parked>>

IdleUnit ==
    [pc |-> "idle", srcTitle |-> "", rId |-> 0, rTitle |-> "", fTitle |-> "",
     text |-> "", date |-> "", username |-> "", quantity |-> "",
     err |-> "", rowID |-> "", cs |-> "", appendErr |-> "", fatalf |-> ""]

\* init() has run through: services created, the folders and the sheet
\* found, their ids stored in the package variables (master.go:52-65).
BootReady ==
    [pc |-> "ready", err |-> "",
     UploadFolderID |-> UploadFolderID,
     ProcessedFolderID |-> ProcessedFolderID,
     FailedFolderID |-> FailedFolderID,
     ReportFolderID |-> ReportFolderName,
     SheetID |-> "sheet"]

Init ==
    /\ \E up \in [Files -> Uploads] :
          drive = [f \in Files |->
                      [title |-> SourceTitle(f), parents |-> {UploadFolderID},
                       kind |-> up[f].kind, text |-> up[f].text]]
    /\ sheet = <<HeaderRow>>
    /\ fatal = ""
    /\ mainPc = "list"
    /\ cs = <<>>
    /\ idx = 1
    /\ wg = 0
    /\ unit = [f \in Files |-> IdleUnit]
    /\ boot = BootReady
    /\ inv = 1
    /\ parked = <<>>

Running == fatal = ""

(***************************************************************************)
(* Drive calls                                                             *)
(***************************************************************************)
RECURSIVE SeqOfSet(_)
SeqOfSet(S) ==
    IF S = {} THEN <<>>
    ELSE LET m == SetMin(S) IN <<m>> \o SeqOfSet(S \ {m})

\* Files.List with "'<folderID>' in parents", all pages (master.go:280-307).
getFilesFromFolder(d, folderID, foldersOnly) ==
    SeqOfSet({id \in DOMAIN d :
                 /\ folderID \in d[id].parents
                 /\ foldersOnly => d[id].kind = "folder"})

\* moveFileToFolder with the RemoveParents call left out.
moveFileToFolder_NoRemove(d, id, fromFolder, toFolder) ==
    [d EXCEPT ![id].parents = @ \cup {toFolder}]

\* Files.Update(id).RemoveParents(from).AddParents(to) (master.go:365-367).
moveFileToFolder(d, id, fromFolder, toFolder) ==
    [d EXCEPT ![id].parents = (@ \ {fromFolder}) \cup {toFolder}]

\* Files.Update(id, file) with the new title (master.go:369-373); an id the
\* store does not hold changes nothing and the error is dropped by the caller.
renameFile(d, id, newName) ==
    IF id \in DOMAIN d THEN [d EXCEPT ![id].title = newName] ELSE d

\* Files.Insert(f).Media(img) (master.go:118-121): the store converts the
\* image to a document whose text is the OCR of the screenshot.
InsertDocument(d, id, title, parent, text) ==
    d @@ (id :> [title |-> title, parents |-> {parent},
                 kind |-> "document", text |-> text])

\* Both branches sending the source file to Processed.
SourceDestination_AlwaysProcessed(err) == ProcessedFolderID

\* The folder the source file is sent to (master.go:136-150).
SourceDestination(err) ==
    IF err # "" THEN FailedFolderID ELSE ProcessedFolderID

\* The name both renameFile calls are given (master.go:162-163).
NewName(rowID, rTitle, css) == rowID \o "-" \o rTitle \o "-" \o css

\* Only the first of the two checks on appendDataToSheet's result.
AppendCheck_FirstOnly(res) ==
    IF res.cs = "" /\ res.err # "" THEN "Unable to update spreadsheet"
    ELSE ""

\* The checks on appendDataToSheet's result (master.go:154-159): the
\* log.Fatalf message, or "" when the goroutine goes on.
AppendCheck(res) ==
    IF res.cs = "" /\ res.err # "" THEN "Unable to update spreadsheet"
    ELSE IF res.err # "" THEN "Couldn't Get RowID"
    ELSE ""

\* A log.Fatalf that ends only the calling goroutine, running its deferred
\* wg.Done().
logFatalf_Goexit(u, nu, msg) ==
    /\ fatal' = fatal
    /\ unit' = [unit EXCEPT ![u] = [nu EXCEPT !.fatalf = msg, !.pc = "done"]]
    /\ wg' = wg - 1

(***************************************************************************)
(* log.Fatalf: os.Exit(1), every goroutine stops where it is and no        *)
(* deferred call runs.  nu is the goroutine's record at the call; fatalf    *)
(* keeps the message of the call that goroutine made.                      *)
(***************************************************************************)
logFatalf(u, nu, msg) ==
    /\ fatal' = msg
    /\ unit' = [unit EXCEPT ![u] = [nu EXCEPT !.fatalf = msg]]
    /\ wg' = wg

(***************************************************************************)
(* Main (master.go:91-169)                                                 *)
(***************************************************************************)
MainList ==
    /\ Running /\ mainPc = "list"
    /\ cs' = getFilesFromFolder(drive, UploadFolderID, FALSE)
    /\ idx' = 1
    /\ mainPc' = "loop"
    /\ UNCHANGED <<drive, sheet, fatal, wg, unit, boot, inv, parked>>

MainListErr ==
    /\ Running /\ mainPc = "list"
    /\ fatal' = "Failed to get files from folder"
    /\ UNCHANGED <<drive, sheet, mainPc, cs, idx, wg, unit, boot, inv, parked>>

\* One iteration of the range loop: Files.Get, wg.Add(1), go func.
MainLaunch ==
    /\ Running /\ mainPc = "loop" /\ idx <= Len(cs)
    /\ unit' = [unit EXCEPT ![cs[idx]] =
                   [IdleUnit EXCEPT !.pc = "crop",
                                    !.srcTitle = drive[cs[idx]].title]]
    /\ wg' = wg + 1
    /\ idx' = idx + 1
    /\ UNCHANGED <<drive, sheet, fatal, mainPc, cs, boot, inv, parked>>

MainGetErr ==
    /\ Running /\ mainPc = "loop" /\ idx <= Len(cs)
    /\ fatal' = "Failed to get file"
    /\ UNCHANGED <<drive, sheet, mainPc, cs, idx, wg, unit, boot, inv, parked>>

\* wg.Wait() returns once the counter is zero; Main then returns.
MainReturn ==
    /\ Running /\ mainPc = "loop" /\ idx > Len(cs)
    /\ wg = 0
    /\ mainPc' = "returned"
    /\ UNCHANGED <<drive, sheet, fatal, cs, idx, wg, unit, boot, inv, parked>>

(***************************************************************************)
(* The goroutine of one file (master.go:110-165)                           *)
(***************************************************************************)
At(u, pc) == Running /\ unit[u].pc = pc

Goto(u, nu, pc) ==
    /\ unit' = [unit EXCEPT ![u] = [nu EXCEPT !.pc = pc]]
    /\ UNCHANGED <<fatal, wg>>

\* cropImage (master.go:397-434)
Crop(u) ==
    /\ At(u, "crop")
    /\ drive[u].kind = "image"
    /\ Goto(u, unit[u], "insert")
    /\ UNCHANGED <<drive, sheet, mainPc, cs, idx, boot, inv, parked>>

CropDecodeErr(u) ==
    /\ At(u, "crop")
    /\ drive[u].kind = "other"
    /\ logFatalf(u, unit[u], "image.Decode")
    /\ UNCHANGED <<drive, sheet, mainPc, cs, idx, boot, inv, parked>>

\* the download fails; downloading a folder always does
CropDownloadErr(u) ==
    /\ At(u, "crop")
    /\ logFatalf(u, unit[u], "Download image")
    /\ UNCHANGED <<drive, sheet, mainPc, cs, idx, boot, inv, parked>>

\* the id the store gives the document the i-th invocation creates for f;
\* DocId(f) in the first invocation
DocIdIn(i, f) == DocId(f) + (i - 1) * MaxFiles

Insert(u) ==
    /\ At(u, "insert")
    /\ LET title == unit[u].srcTitle \o "_results"
       IN  /\ drive' = InsertDocument(drive, DocIdIn(inv, u), title,
                                      ProcessedFolderID, drive[u].text)
           /\ Goto(u, [unit[u] EXCEPT !.rId = DocIdIn(inv, u),
                                      !.rTitle = title,
                                      !.fTitle = title], "export")
    /\ UNCHANGED <<sheet, mainPc, cs, idx, boot, inv, parked>>

InsertErr(u) ==
    /\ At(u, "insert")
    /\ logFatalf(u, unit[u], "Failed to create document")
    /\ UNCHANGED <<drive, sheet, mainPc, cs, idx, boot, inv, parked>>

Export(u) ==
    /\ At(u, "export")
    /\ Goto(u, [unit[u] EXCEPT !.text = drive[unit[u].rId].text], "extract")
    /\ UNCHANGED <<drive, sheet, mainPc, cs, idx, boot, inv, parked>>

ExportErr(u) ==
    /\ At(u, "export")
    /\ logFatalf(u, unit[u], "Failed to download document")
    /\ UNCHANGED <<drive, sheet, mainPc, cs, idx, boot, inv, parked>>

\* line 135: res is what extractData returned
ExtractStep(u, res) ==
    /\ At(u, "extract")
    /\ Goto(u, [unit[u] EXCEPT !.date = res.date,
                               !.username = res.username,
                               !.quantity = res.quantity,
                               !.err = res.err], "move")
    /\ UNCHANGED <<drive, sheet, mainPc, cs, idx, boot, inv, parked>>

Extract(u) ==
    \E t \in {unit[u].text} \cap AllTexts : ExtractStep(u, ExtractedFrom[t])

\* ioutil.ReadAll fails on the exported body (lines 328-331)
ExtractReadErr(u) == ExtractStep(u, ExtractResult("", "", "", "read error"))

\* lines 137 and 146: the source file leaves Upload
MoveSource(u) ==
    /\ At(u, "move")
    /\ drive' = moveFileToFolder(drive, u, UploadFolderID,
                                 SourceDestination(unit[u].err))
    /\ Goto(u, unit[u], IF unit[u].err # "" THEN "moveDoc" ELSE "append")
    /\ UNCHANGED <<sheet, mainPc, cs, idx, boot, inv, parked>>

MoveSourceErr(u) ==
    /\ At(u, "move")
    /\ logFatalf(u, unit[u], "Unable to move file to Failed")
    /\ UNCHANGED <<drive, sheet, mainPc, cs, idx, boot, inv, parked>>

\* line 141: the derived document, with Upload as the folder to leave
MoveDoc(u) ==
    /\ At(u, "moveDoc")
    /\ drive' = moveFileToFolder(drive, unit[u].rId, UploadFolderID,
                                 FailedFolderID)
    /\ Goto(u, unit[u], "append")
    /\ UNCHANGED <<sheet, mainPc, cs, idx, boot, inv, parked>>

MoveDocErr(u) ==
    /\ At(u, "moveDoc")
    /\ logFatalf(u, unit[u], "Unable to move file to Failed")
    /\ UNCHANGED <<drive, sheet, mainPc, cs, idx, boot, inv, parked>>

\* lines 153-159; reached after either branch of the extraction test
AppendStep(u, callOk, updatedRange) ==
    /\ At(u, "append")
    /\ \E css \in {Checksum(unit[u].date, unit[u].username, unit[u].quantity)} :
       \E res \in {appendDataToSheetResult(css, callOk, updatedRange)} :
       LET nu == [unit[u] EXCEPT !.rowID = res.rowID, !.cs = res.cs,
                                 !.appendErr = res.err]
       IN  /\ sheet' = IF callOk
                       THEN Append(sheet,
                                   SheetValues(css, unit[u].date,
                                               unit[u].username,
                                               unit[u].quantity,
                                               LinkOf(unit[u].rId)))
                       ELSE sheet
           /\ IF AppendCheck(res) # ""
              THEN logFatalf(u, nu, AppendCheck(res))
              ELSE Goto(u, nu, "renameR")
    /\ UNCHANGED <<drive, mainPc, cs, idx, boot, inv, parked>>

AppendRow(u) == AppendStep(u, TRUE, RangeOfRow(Len(sheet) + 1))

AppendOddRange(u) == AppendStep(u, TRUE, OddRangeOfRow(Len(sheet) + 1))

AppendErr(u) == AppendStep(u, FALSE, "")

\* line 162: renameFile(r, ...); callOk is whether the update went through
RenameRStep(u, callOk) ==
    /\ At(u, "renameR")
    /\ LET newName == NewName(unit[u].rowID, unit[u].rTitle, unit[u].cs)
       IN  /\ drive' = IF callOk THEN renameFile(drive, unit[u].rId, newName)
                       ELSE drive
           /\ Goto(u, [unit[u] EXCEPT !.rTitle = newName], "renameF")
    /\ UNCHANGED <<sheet, mainPc, cs, idx, boot, inv, parked>>

RenameR(u) == RenameRStep(u, TRUE)

RenameRErr(u) == RenameRStep(u, FALSE)

\* line 163: renameFile(f, ...); f is the struct handed to Insert, its Id is
\* empty (0 here), so the update names no stored file.  The deferred
\* wg.Done() runs as the goroutine returns.
RenameF(u) ==
    /\ At(u, "renameF")
    /\ LET newName == NewName(unit[u].rowID, unit[u].rTitle, unit[u].cs)
       IN  /\ drive' = renameFile(drive, 0, newName)
           /\ unit' = [unit EXCEPT ![u] = [@ EXCEPT !.fTitle = newName,
                                                    !.pc = "done"]]
    /\ wg' = wg - 1
    /\ UNCHANGED <<sheet, fatal, mainPc, cs, idx, boot, inv, parked>>

(***************************************************************************)
(* Specifications                                                          *)
(***************************************************************************)
UnitStep(u) ==
    \/ Crop(u) \/ CropDecodeErr(u) \/ Insert(u) \/ Export(u) \/ Extract(u)
    \/ MoveSource(u) \/ MoveDoc(u) \/ AppendRow(u) \/ RenameR(u) \/ RenameF(u)

UnitFault(u) ==
    \/ CropDownloadErr(u) \/ InsertErr(u) \/ ExportErr(u) \/ ExtractReadErr(u)
    \/ MoveSourceErr(u) \/ MoveDocErr(u) \/ AppendOddRange(u) \/ AppendErr(u)
    \/ RenameRErr(u)

MainStep == MainList \/ MainLaunch \/ MainReturn

MainFault == MainListErr \/ MainGetErr

\* every collaborator call returns without error and as documented
NextNoFault == MainStep \/ \E u \in Files : UnitStep(u)

Next == NextNoFault \/ MainFault \/ \E u \in Files : UnitFault(u)

Spec == Init /\ [][Next]_vars

\* No sub-folder under Upload (its download is a failing call), no failing
\* call, and the scheduler runs every goroutine that can run.
InitNoFault == Init /\ \A f \in Files : drive[f].kind # "folder"

SpecNoFault ==
    /\ InitNoFault
    /\ [][NextNoFault]_vars
    /\ WF_vars(MainStep)
    /\ \A u \in Files : WF_vars(UnitStep(u))

\* A later run, one new entry under Upload: the other files were handled by
\* earlier runs and are in Processed, and the sheet holds the rows of those
\* runs below the header.
PriorRow ==
    SheetValues(Checksum("2021-04-30 09:00:00", "Old", "1"), "2021-04-30 09:00:00",
                "Old", "1", LinkOf(0))

InitSingle ==
    /\ \E up \in [kind : {"image"}, text : AllTexts]
                  \cup [kind : {"other", "folder"}, text : {""}] :
          drive = [f \in Files |->
                      IF f = 1
                      THEN [title |-> SourceTitle(f),
                            parents |-> {UploadFolderID},
                            kind |-> up.kind, text |-> up.text]
                      ELSE [title |-> SourceTitle(f),
                            parents |-> {ProcessedFolderID},
                            kind |-> "image", text |-> TextFull]]
    /\ \E n \in 0..MaxPriorRows :
          sheet = <<HeaderRow>> \o [i \in 1..n |-> PriorRow]
    /\ fatal = ""
    /\ mainPc = "list"
    /\ cs = <<>>
    /\ idx = 1
    /\ wg = 0
    /\ unit = [f \in Files |-> IdleUnit]
    /\ boot = BootReady
    /\ inv = 1
    /\ parked = <<>>

SpecSingle == InitSingle /\ [][Next]_vars

(***************************************************************************)
(* Properties                                                              *)
(***************************************************************************)
\* extractData has returned in unit u
ExtractDone(u) ==
    unit[u].pc \in {"move", "moveDoc", "append", "renameR", "renameF", "done"}

ExtractFailed(u) == ExtractDone(u) /\ unit[u].err # ""

ExtractSucceeded(u) == ExtractDone(u) /\ unit[u].err = ""

\* the failure branch (lines 137-144) has been left
FailureHandled(u) ==
    /\ unit[u].err # ""
    /\ unit[u].pc \in {"append", "renameR", "renameF", "done"}

\* the rows of the sheet that carry the link of u's derived document
RowsOf(u) == {i \in 2..Len(sheet) : sheet[i].link = LinkOf(DocId(u))}

DerivedTitle(u) == SourceTitle(u) \o "_results"

\* what the regular expressions find in the sample texts
TextsWithoutDate == {t \in Texts : Len(dateRegex(t)) # 2}

TextsWithAllFields ==
    {t \in Texts :
        /\ Len(dateRegex(t)) = 2
        /\ Len(usernameRegex(t)) = 2
        /\ \E q \in {quantityZeroRegex(t), quantityFirstRegex(t),
                     quantitySecondRegex(t)} : ~NoMatch(q)}

\* C1: a row is appended only for a file whose extraction succeeded, and
\* when Main has returned the number of rows added equals the number of
\* files whose extraction succeeded.
C1_RowOnlyAfterSuccess ==
    /\ \A u \in Files : RowsOf(u) # {} => ExtractSucceeded(u)
    /\ mainPc = "returned" =>
          Len(sheet) - 1 = Cardinality({u \in Files : ExtractSucceeded(u)})

\* C2: when Main has returned, every file it listed under Upload has left
\* Upload and is in exactly one of Processed and Failed.
C2_ExactlyOneDestination ==
    mainPc = "returned" =>
        \A i \in 1..Len(cs) :
            LET p == drive[cs[i]].parents
            IN  /\ UploadFolderID \notin p
                /\ (ProcessedFolderID \in p) # (FailedFolderID \in p)

C2_Witness ==
    /\ mainPc = "returned"
    /\ Len(cs) = MaxFiles
    /\ \E i, j \in 1..Len(cs) :
          /\ drive[cs[i]].parents = {ProcessedFolderID}
          /\ drive[cs[j]].parents = {FailedFolderID}

\* C3: a source file is in Processed only if extraction found all three
\* fields; a file whose extraction failed is never in Processed and is in
\* Failed once its move is done; a text without a date pattern fails with
\* Date Not Found.
C3_DestinationMatchesOutcome ==
    \A u \in Files :
        /\ ProcessedFolderID \in drive[u].parents =>
              /\ ExtractSucceeded(u)
              /\ drive[u].text \in TextsWithAllFields
        /\ ExtractFailed(u) => ProcessedFolderID \notin drive[u].parents
        /\ FailureHandled(u) => drive[u].parents = {FailedFolderID}
        /\ (ExtractDone(u) /\ drive[u].text \in TextsWithoutDate) =>
              /\ unit[u].err \in {"Date Not Found", "read error"}
              /\ ProcessedFolderID \notin drive[u].parents

C3_Witness ==
    \E u, v \in Files :
        /\ unit[u].err = "Date Not Found"
        /\ drive[u].parents = {FailedFolderID}
        /\ ExtractSucceeded(v)
        /\ drive[v].parents = {ProcessedFolderID}

\* C4: once a unit has handled an extraction failure, its derived document
\* is in Failed and no longer in Processed, the folder it was created in.
C4_DerivedDocMovedToFailed ==
    \A u \in Files :
        FailureHandled(u) =>
            /\ FailedFolderID \in drive[unit[u].rId].parents
            /\ ProcessedFolderID \notin drive[unit[u].rId].parents

\* C5: a unit that went through a successful append (row id R, checksum C)
\* and finished has given the source file and the derived document the same
\* name R-T-C, T being the derived document's title before the renaming.
C5_BothRenamed ==
    \A u \in Files :
        (unit[u].pc = "done" /\ unit[u].fatalf = "") =>
            LET name == NewName(unit[u].rowID, DerivedTitle(u), unit[u].cs)
            IN  /\ drive[u].title = name
                /\ drive[unit[u].rId].title = name

\* C6: a unit whose extraction failed renames nothing: the source file keeps
\* its display name and the derived document the title it was created with.
C6_FailureRenamesNothing ==
    \A u \in Files :
        ExtractFailed(u) =>
            /\ drive[u].title = SourceTitle(u)
            /\ drive[unit[u].rId].title = DerivedTitle(u)

\* unit u was stopped by the log.Fatalf of a failed image.Decode
DecodeFailed(u) == unit[u].fatalf = "image.Decode"

\* C7: a decode error in cropImage for one file aborts that file only: the
\* units of the other files still run to completion and Main still returns.
C7_DecodeErrorAbortsOneFile ==
    \A u \in Files :
        DecodeFailed(u) ~>
            (/\ mainPc = "returned"
             /\ \A v \in Files \ {u} :
                   unit[v].pc = "idle" \/ unit[v].pc = "done")

\* the log.Fatalf messages after a failed insert, export, move or append
CollaboratorFatal ==
    {"Failed to create document", "Failed to download document",
     "Unable to move file to Failed", "Couldn't Get RowID"}

SomeUnitFatal == \E u \in Files : unit[u].fatalf # ""

\* C8: once a unit has hit a fatal error nothing executes any more (no step
\* of a sibling unit, none of Main) and Main has not returned.
C8_FatalStopsProcess ==
    /\ [](SomeUnitFatal => mainPc # "returned")
    /\ [][SomeUnitFatal => UNCHANGED vars]_vars

C8_Witness ==
    \E u, v \in Files :
        /\ unit[u].fatalf \in CollaboratorFatal
        /\ v # u
        /\ unit[v].pc \in {"crop", "insert", "export", "extract", "move"}
        /\ UploadFolderID \in drive[v].parents
        /\ mainPc # "returned"

\* C9: Main returns only after it launched a unit for every listed entry
\* and all of them finished, and, with every collaborator call returning
\* without error, Main eventually returns.
C9_MainWaitsAndReturns ==
    /\ [](mainPc = "returned" =>
             /\ idx = Len(cs) + 1
             /\ \A i \in 1..Len(cs) : unit[cs[i]].pc = "done")
    /\ <>(mainPc = "returned")

\* C10: when the append wrote the row but the returned range does not match
\* the row pattern, appendDataToSheet returns the error with an empty row id
\* and a non-empty checksum, the row is in the sheet, and the unit renames
\* nothing.
C10_RowParseError ==
    \A u \in Files :
        unit[u].appendErr = RowParseError =>
            /\ unit[u].rowID = ""
            /\ unit[u].cs # ""
            /\ \E i \in RowsOf(u) : sheet[i].checksum = unit[u].cs
            /\ unit[u].pc = "append"
            /\ drive[u].title = SourceTitle(u)
            /\ drive[unit[u].rId].title = DerivedTitle(u)
            /\ unit[u].rTitle = DerivedTitle(u)

C10_Witness ==
    \E u \in Files :
        /\ unit[u].appendErr = RowParseError
        /\ ExtractSucceeded(u)
        /\ Len(sheet) > 1

\* appendDataToSheet has returned without error in unit u
AppendSucceeded(u) == unit[u].pc \in {"renameR", "renameF", "done"}

\* C11: after a successful append to a sheet with the header in row 1, the
\* row id appendDataToSheet recovered is the number of the row that was
\* written for the unit, and that number is at least 2.
C11_RowIdIsRowWritten ==
    \A u \in Files :
        AppendSucceeded(u) =>
            \E i \in RowsOf(u) : i >= 2 /\ unit[u].rowID = ToString(i)

C11_Witness ==
    \E u \in Files :
        /\ AppendSucceeded(u)
        /\ Len(unit[u].rowID) >= 2
        /\ Len(sheet) = MaxPriorRows + 2

\* the capture of a FindStringSubmatch result, "" when there is none
Capture(res) == IF Len(res) = 2 THEN res[2] ELSE ""

\* what each regular expression finds in each text, evaluated once
FoundIn ==
    [t \in AllTexts |->
        [date |-> Len(dateRegex(t)) = 2,
         member |-> Len(usernameRegex(t)) = 2,
         caps |-> <<Capture(quantityZeroRegex(t)),
                    Capture(quantityFirstRegex(t)),
                    Capture(quantitySecondRegex(t))>>]]

FirstNonEmpty(caps) ==
    IF caps[1] # "" THEN caps[1] ELSE IF caps[2] # "" THEN caps[2] ELSE caps[3]

\* extractData has returned in unit u and ReadAll had not failed
Extracted(u) == ExtractDone(u) /\ unit[u].err # "read error"

\* C12: in a text with a date and a member, the quantity is the capture of
\* the first of the patterns Member Donation, Type, Quantity whose capture
\* is not empty (Type wins over Quantity), and extractData fails with
\* Quantity Not Found exactly when all three captures are empty or missing.
C12_QuantityPriority ==
    \A u \in Files :
        (Extracted(u) /\ FoundIn[unit[u].text].date
                      /\ FoundIn[unit[u].text].member) =>
            LET caps == FoundIn[unit[u].text].caps
            IN  IF FirstNonEmpty(caps) = ""
                THEN unit[u].err = "Quantity Not Found"
                ELSE unit[u].err = "" /\ unit[u].quantity = FirstNonEmpty(caps)

\* a text where the Quantity block comes before the Type block
C12_Witness ==
    \E u \in Files :
        /\ Extracted(u)
        /\ unit[u].text =
              "2021-05-01 12:00:00\r\nMember Donation - Screenshot (Jane Doe)\r\nQuantity\r\n7\r\nType\r\n1,234\r\n"
        /\ unit[u].quantity = "1,234"

\* C13: extractData reports the first field missing in the order date,
\* member, quantity; on every failure the three strings are empty; it
\* succeeds exactly when all three fields are found.
C13_FirstMissingField ==
    \A u \in Files :
        /\ ExtractFailed(u) =>
              unit[u].date = "" /\ unit[u].username = "" /\ unit[u].quantity = ""
        /\ Extracted(u) =>
              LET f == FoundIn[unit[u].text]
              IN  /\ ~f.date => unit[u].err = "Date Not Found"
                  /\ (f.date /\ ~f.member) => unit[u].err = "Username Not Found"
                  /\ unit[u].err = "" <=>
                        (f.date /\ f.member /\ FirstNonEmpty(f.caps) # "")

\* no date and no member line, but a quantity block
C13_Witness ==
    \E u \in Files :
        /\ Extracted(u)
        /\ unit[u].text = "Type\r\n1,234\r\n"
        /\ unit[u].err = "Date Not Found"

\* The scenario text: the timestamp, the member line and the Type block, the
\* label followed by CRLF, and the same with a bare LF after the label.
ScenarioCRLF ==
    "2021-05-01 12:00:00\r\nMember Donation - Screenshot (Jane Doe)\r\nType\r\n1,234\r\n"
ScenarioLF ==
    "2021-05-01 12:00:00\r\nMember Donation - Screenshot (Jane Doe)\r\nType\n1,234\n"

Contains(s, lit) == \E i \in 1..Len(s) : HasLiteralAt(s, i, lit)

HasScenarioLines(t) ==
    /\ Contains(t, "2021-05-01 12:00:00")
    /\ Contains(t, "Member Donation - Screenshot (Jane Doe)")

\* the texts containing the three items of the scenario, with either newline
\* after the label Type
ScenarioTexts ==
    {t \in AllTexts :
        /\ HasScenarioLines(t)
        /\ Contains(t, "Type\r\n1,234") \/ Contains(t, "Type\n1,234")}

\* those with CRLF after the label Type and no number directly under a
\* "Member Donation" label
ScenarioTextsCRLF ==
    {t \in AllTexts :
        /\ HasScenarioLines(t)
        /\ Contains(t, "Type\r\n1,234")
        /\ \A c \in DigitChars \cup {","} :
              ~Contains(t, "Member Donation\r\n" \o c)}

ScenarioResult(u) ==
    /\ unit[u].err = ""
    /\ unit[u].date = "2021-05-01 12:00:00"
    /\ unit[u].username = "Jane Doe"
    /\ unit[u].quantity = "1,234"

Launched(u) == unit[u].pc # "idle"

\* C15: a unit of work exists only for a file directly under the Upload
\* folder; a sub-folder of Upload is never the source of a unit.
C15_NoUnitForSubFolder ==
    \A u \in Files : Launched(u) => drive[u].kind # "folder"

(***************************************************************************)
(* Bootstrap: init, createServices, setupFolders, setupSheet                *)
(* (master.go:74-88, 171-278, 309-324).  Drive ids are numbers, the ids the *)
(* program keeps are their decimal strings, "" while unset.                 *)
(***************************************************************************)
\* process starts the model follows, one after the other
MaxColdStarts == 2

SheetName == "ISK Import Report"
masterFolderID == "master"

FolderNames ==
    <<UploadFolderName, ProcessedFolderName, FailedFolderName, ReportFolderName>>
IdFields ==
    <<"UploadFolderID", "ProcessedFolderID", "FailedFolderID", "ReportFolderID">>

\* the masks 1, 2, 4, 8 of setupFolders
Bit(k) == 2 ^ (k - 1)
HasBit(check, k) == (check \div Bit(k)) % 2 = 1
OrBit(check, k) == IF HasBit(check, k) THEN check ELSE check + Bit(k)

FileId(n) == ToString(n)
NewId(d) == SetMax(DOMAIN d \cup {5}) + 1

\* the package variables of a process that has just started
BootStart(n) ==
    [pc |-> "createServices", err |-> "", UploadFolderID |-> "",
     ProcessedFolderID |-> "", FailedFolderID |-> "", ReportFolderID |-> "",
     SheetID |-> "", check |-> 0, k |-> 1, foldersRet |-> "", newFile |-> "",
     start |-> n]

\* folders the user or an earlier start left under the root, and the report
InitBoot ==
    /\ \E S \in SUBSET (1..4) : \E withSheet \in BOOLEAN :
          /\ withSheet => 4 \in S
          /\ drive = [id \in S \cup (IF withSheet THEN {5} ELSE {}) |->
                        IF id = 5
                        THEN [title |-> SheetName, parents |-> {FileId(4)},
                              kind |-> "sheet", text |-> ""]
                        ELSE [title |-> FolderNames[id],
                              parents |-> {masterFolderID},
                              kind |-> "folder", text |-> ""]]
          /\ sheet = IF withSheet THEN <<HeaderRow>> ELSE <<>>
    /\ fatal = ""
    /\ mainPc = "list"
    /\ cs = <<>>
    /\ idx = 1
    /\ wg = 0
    /\ unit = [f \in Files |-> IdleUnit]
    /\ boot = BootStart(1)
    /\ inv = 1
    /\ parked = <<>>

BootAt(pc) == fatal = "" /\ boot.pc = pc
BootKeeps == UNCHANGED <<fatal, mainPc, cs, idx, wg, unit, inv, parked>>

CreateServicesOk ==
    /\ BootAt("createServices")
    /\ boot' = [boot EXCEPT !.pc = "setupFolders"]
    /\ UNCHANGED <<drive, sheet>> /\ BootKeeps

\* createServices returns nil, nil, err; setupFolders then dereferences the
\* nil driveService in getFilesFromFolder and the process panics.
CreateServicesErr ==
    /\ BootAt("createServices")
    /\ boot' = [boot EXCEPT !.pc = "panicked", !.err = "createServices"]
    /\ UNCHANGED <<drive, sheet>> /\ BootKeeps

\* the body of the range loop of setupFolders for one folder
ScanFolder(d, id, b) ==
    IF \E k \in 1..4 : d[id].title = FolderNames[k]
    THEN LET k == CHOOSE j \in 1..4 : d[id].title = FolderNames[j]
         IN  [b EXCEPT !.check = OrBit(@, k), ![IdFields[k]] = FileId(id)]
    ELSE b

RECURSIVE ScanFolders(_, _, _)
ScanFolders(d, folders, b) ==
    IF folders = <<>> THEN b
    ELSE ScanFolders(d, Tail(folders), ScanFolder(d, Head(folders), b))

SetupFoldersScan(folders) ==
    boot' = [ScanFolders(drive, folders, boot) EXCEPT !.pc = "createFolders"]

SetupFoldersList ==
    /\ BootAt("setupFolders")
    /\ SetupFoldersScan(getFilesFromFolder(drive, masterFolderID, TRUE))
    /\ UNCHANGED <<drive, sheet>> /\ BootKeeps

\* Files.List fails on some page: getFilesFromFolder returns the pages it
\* has, setupFolders prints the error and goes on.
SetupFoldersListErr ==
    /\ BootAt("setupFolders")
    /\ LET all == getFilesFromFolder(drive, masterFolderID, TRUE)
       IN  \E n \in 0..SetMax({0, Len(all) - 1}) :
              SetupFoldersScan(SubSeq(all, 1, n))
    /\ UNCHANGED <<drive, sheet>> /\ BootKeeps

\* the next of the four "if check&bit == 0" blocks that is entered, 5 if none
NextMissing(b) == SetMin({k \in b.k..4 : ~HasBit(b.check, k)} \cup {5})

createEntity(d, name, parentID, kind) ==
    [id \in DOMAIN d \cup {NewId(d)} |->
        IF id \in DOMAIN d THEN d[id]
        ELSE [title |-> name, parents |-> {parentID}, kind |-> kind,
              text |-> ""]]

CreateFolderOk ==
    /\ BootAt("createFolders") /\ NextMissing(boot) <= 4
    /\ LET k == NextMissing(boot)
       IN  /\ drive' = createEntity(drive, FolderNames[k], masterFolderID,
                                    "folder")
           /\ boot' = [boot EXCEPT ![IdFields[k]] = FileId(NewId(drive)),
                                   !.k = k + 1]
    /\ UNCHANGED sheet /\ BootKeeps

\* createFolder fails: setupFolders returns the error, init drops it
CreateFolderErr ==
    /\ BootAt("createFolders") /\ NextMissing(boot) <= 4
    /\ boot' = [boot EXCEPT !.pc = "setupSheet", !.foldersRet = "err"]
    /\ UNCHANGED <<drive, sheet>> /\ BootKeeps

SetupFoldersReturn ==
    /\ BootAt("createFolders") /\ NextMissing(boot) = 5
    /\ boot' = [boot EXCEPT !.pc = "setupSheet", !.foldersRet = "nil"]
    /\ UNCHANGED <<drive, sheet>> /\ BootKeeps

\* setupSheet(ReportFolderID): the listing and the search for the report
SetupSheetList ==
    /\ BootAt("setupSheet")
    /\ LET files == getFilesFromFolder(drive, boot.ReportFolderID, FALSE)
           hits == {i \in 1..Len(files) : drive[files[i]].title = SheetName}
       IN  boot' = IF hits # {}
                   THEN [boot EXCEPT !.SheetID = FileId(files[SetMin(hits)]),
                                     !.pc = "check"]
                   ELSE [boot EXCEPT !.pc = "createSheet"]
    /\ UNCHANGED <<drive, sheet>> /\ BootKeeps

SetupSheetListErr ==
    /\ BootAt("setupSheet")
    /\ boot' = [boot EXCEPT !.pc = "check"]
    /\ UNCHANGED <<drive, sheet>> /\ BootKeeps

CreateSheetOk ==
    /\ BootAt("createSheet")
    /\ drive' = createEntity(drive, SheetName, boot.ReportFolderID, "sheet")
    /\ boot' = [boot EXCEPT !.newFile = FileId(NewId(drive)),
                            !.pc = "sheetGet"]
    /\ UNCHANGED sheet /\ BootKeeps

CreateSheetErr ==
    /\ BootAt("createSheet")
    /\ boot' = [boot EXCEPT !.pc = "check"]
    /\ UNCHANGED <<drive, sheet>> /\ BootKeeps

SheetGet ==
    /\ BootAt("sheetGet")
    /\ boot' = [boot EXCEPT !.SheetID = boot.newFile, !.pc = "header"]
    /\ UNCHANGED <<drive, sheet>> /\ BootKeeps

\* Spreadsheets.Get fails: its err is not looked at and ss is nil, so
\* ss.SpreadsheetId panics.
SheetGetErr ==
    /\ BootAt("sheetGet")
    /\ boot' = [boot EXCEPT !.pc = "panicked"]
    /\ UNCHANGED <<drive, sheet>> /\ BootKeeps

HeaderUpdate ==
    /\ BootAt("header")
    /\ sheet' = <<HeaderRow>>
    /\ boot' = [boot EXCEPT !.pc = "check"]
    /\ UNCHANGED drive /\ BootKeeps

HeaderUpdateErr ==
    /\ BootAt("header")
    /\ boot' = [boot EXCEPT !.pc = "check"]
    /\ UNCHANGED <<drive, sheet>> /\ BootKeeps

\* the "if err != nil" at the end of init, on the err of createServices
InitCheck ==
    /\ BootAt("check")
    /\ IF boot.err # ""
       THEN fatal' = "Unable to retrieve Drive client or files" /\ boot' = boot
       ELSE fatal' = fatal /\ boot' = [boot EXCEPT !.pc = "ready"]
    /\ UNCHANGED <<drive, sheet, mainPc, cs, idx, wg, unit, inv, parked>>

\* the process has ended or is idle and a new one starts: the package
\* variables are fresh, Drive keeps what it has
ColdStart ==
    /\ boot.pc \in {"ready", "panicked"}
    /\ boot.start < MaxColdStarts
    /\ boot' = BootStart(boot.start + 1)
    /\ UNCHANGED <<drive, sheet>> /\ BootKeeps

NextBoot ==
    \/ CreateServicesOk \/ CreateServicesErr
    \/ SetupFoldersList \/ SetupFoldersListErr
    \/ CreateFolderOk \/ CreateFolderErr \/ SetupFoldersReturn
    \/ SetupSheetList \/ SetupSheetListErr
    \/ CreateSheetOk \/ CreateSheetErr
    \/ SheetGet \/ SheetGetErr
    \/ HeaderUpdate \/ HeaderUpdateErr
    \/ InitCheck \/ ColdStart

SpecBoot == InitBoot /\ [][NextBoot]_vars

\* the folders under the root that carry the k-th name
FoldersNamed(k) ==
    {id \in DOMAIN drive : /\ drive[id].kind = "folder"
                           /\ drive[id].title = FolderNames[k]
                           /\ masterFolderID \in drive[id].parents}

\* C16: once setupFolders has returned without error, each of the four ids
\* is the id of a folder of the matching name under the root, and no name is
\* carried by two folders under the root (a folder is created only for a
\* name no folder carried).
C16_FoldersMatchedNotDuplicated ==
    boot.foldersRet = "nil" =>
        \A k \in 1..4 :
            /\ \E id \in FoldersNamed(k) : boot[IdFields[k]] = FileId(id)
            /\ Cardinality(FoldersNamed(k)) = 1

\* Main can be invoked: init has returned
MainCanRun == fatal = "" /\ boot.pc = "ready"

\* C20: whenever Main can run, the four folder ids and SheetID are set, and
\* a process whose createServices failed has made no Drive or Sheets call.
C20_BootstrapComplete ==
    /\ MainCanRun =>
          /\ \A k \in 1..4 : boot[IdFields[k]] # ""
          /\ boot.SheetID # ""
    /\ boot.err # "" => boot.pc = "panicked"

\* the unit's source file has been moved to Failed after a failed extraction
Quarantined(u) == ExtractFailed(u) /\ FailedFolderID \in drive[u].parents

\* a row has been appended for the unit
Recorded(u) == RowsOf(u) # {}

\* the unit has renamed its derived document
Renamed(u) == unit[u].pc \in {"renameF", "done"}

\* C17: the steps of a unit keep their order: a row is appended only after
\* extraction has returned, a rename happens only after an append that
\* returned a row id, and a unit that quarantined its file is never
\* Recorded or Renamed.
C17_StepOrderAndQuarantine ==
    \A u \in Files :
        /\ Recorded(u) => ExtractDone(u)
        /\ Renamed(u) => Recorded(u) /\ unit[u].rowID # ""
        /\ Quarantined(u) => ~Recorded(u) /\ ~Renamed(u)

\* the row whose number is u's row id carries u's checksum, date, member,
\* quantity and the link of u's derived document
OwnRow(u) ==
    \E i \in 2..Len(sheet) :
        /\ unit[u].rowID = ToString(i)
        /\ sheet[i] = SheetValues(unit[u].cs, unit[u].date, unit[u].username,
                                  unit[u].quantity, LinkOf(unit[u].rId))

RowIdsOwnAndDistinct ==
    \A u \in Files :
        AppendSucceeded(u) =>
            /\ OwnRow(u)
            /\ \A v \in Files \ {u} :
                  AppendSucceeded(v) => unit[v].rowID # unit[u].rowID
            /\ Renamed(u) =>
                  unit[u].rTitle =
                      NewName(unit[u].rowID, DerivedTitle(u), unit[u].cs)

\* every Drive entry a step creates or changes is the source file or the
\* derived document of the unit that took the step
OnlyOwnFilesTouched ==
    \A id \in DOMAIN drive' :
        (id \notin DOMAIN drive \/ drive'[id] # drive[id]) =>
            \E u \in Files : unit'[u] # unit[u] /\ id \in {u, unit'[u].rId}

\* C18: under every interleaving of the units of a batch, each unit gets a
\* row id of its own, the row id and checksum it renames with are those of
\* the row carrying its own date, member, quantity and link, and a unit
\* changes only its own source file and derived document.
C18_OwnRowOwnFiles == []RowIdsOwnAndDistinct /\ [][OnlyOwnFilesTouched]_vars

\* two units of one batch have both appended and renamed
C18_Witness ==
    \E u, v \in Files :
        /\ u # v
        /\ unit[u].pc = "done" /\ unit[v].pc = "done"
        /\ unit[u].rowID = "3" /\ unit[v].rowID = "2"

(***************************************************************************)
(* Several invocations of Main in one process.  The variables mainPc, cs,   *)
(* idx, wg and unit are the locals of the invocation inv that takes the     *)
(* next step; the locals of the others are kept in parked.                  *)
(***************************************************************************)
MaxInvocations == 2

Locals == [mainPc |-> mainPc, cs |-> cs, idx |-> idx, wg |-> wg, unit |-> unit]

\* a further HTTP request arrives and Main is entered again
MainInvoke ==
    /\ Running
    /\ Cardinality(DOMAIN parked) + 1 < MaxInvocations
    /\ parked' = [k \in DOMAIN parked \cup {inv} |->
                     IF k = inv THEN Locals ELSE parked[k]]
    /\ inv' = Cardinality(DOMAIN parked) + 2
    /\ mainPc' = "list" /\ cs' = <<>> /\ idx' = 1 /\ wg' = 0
    /\ unit' = [f \in Files |-> IdleUnit]
    /\ UNCHANGED <<drive, sheet, fatal, boot>>

\* the scheduler turns to the goroutines of invocation k
Resume(k) ==
    /\ Running
    /\ k \in DOMAIN parked
    /\ parked' = [j \in (DOMAIN parked \ {k}) \cup {inv} |->
                     IF j = inv THEN Locals ELSE parked[j]]
    /\ inv' = k
    /\ mainPc' = parked[k].mainPc /\ cs' = parked[k].cs
    /\ idx' = parked[k].idx /\ wg' = parked[k].wg
    /\ unit' = parked[k].unit
    /\ UNCHANGED <<drive, sheet, fatal, boot>>

\* one upload, no sub-folder, under Upload, the other files handled before
InitOverlap ==
    /\ \E up \in {x \in Uploads : x.kind # "folder"} :
          drive = [f \in Files |->
                      IF f = 1
                      THEN [title |-> SourceTitle(f),
                            parents |-> {UploadFolderID},
                            kind |-> up.kind, text |-> up.text]
                      ELSE [title |-> SourceTitle(f),
                            parents |-> {ProcessedFolderID},
                            kind |-> "image", text |-> TextFull]]
    /\ sheet = <<HeaderRow>>
    /\ fatal = ""
    /\ mainPc = "list"
    /\ cs = <<>>
    /\ idx = 1
    /\ wg = 0
    /\ unit = [f \in Files |-> IdleUnit]
    /\ boot = BootReady
    /\ inv = 1
    /\ parked = <<>>

NextOverlap ==
    \/ NextNoFault
    \/ MainInvoke
    \/ \E k \in 1..MaxInvocations : Resume(k)

\* no collaborator call fails; invocations may follow or overlap each other
SpecOverlap == InitOverlap /\ [][NextOverlap]_vars

\* the unit of invocation k for file f
UnitOf(k, f) ==
    IF k = inv THEN unit[f]
    ELSE IF k \in DOMAIN parked THEN parked[k].unit[f]
    ELSE IdleUnit

\* the rows that carry the link of a document derived from f
RowsFrom(f) ==
    {i \in 2..Len(sheet) :
        \E k \in 1..MaxInvocations : sheet[i].link = LinkOf(DocIdIn(k, f))}

\* C19: over all invocations of Main, following or overlapping each other,
\* each source file is the source of at most one unit and has at most one
\* row in the sheet.
C19_OneUnitOneRowPerFile ==
    \A f \in Files :
        /\ Cardinality({k \in 1..MaxInvocations : UnitOf(k, f).pc # "idle"}) <= 1
        /\ Cardinality(RowsFrom(f)) <= 1

=============================================================================
